---- MODULE Spec2Model ----
(***************************************************************************)
(* A model of the dataset-preprocessor server (src/server.js, the routes   *)
(* of lines 119-548): the three routes that call the upstream generative   *)
(* model (/api/process, /api/train, /api/predict), the model registry      *)
(* `trainedModels`, and the download route.  Lines 556-815 of the file     *)
(* repeat an earlier revision of lines 1-278 (no retry loop, no registry); *)
(* the model follows the current revision, lines 1-554.                    *)
(*                                                                         *)
(* Five specifications: Spec, the server with its requests in flight;      *)
(* SpecFiles, the file conversions of the upload and export routes         *)
(* (parseFileContent, parseCSV, dataToCSV) on every file content up to a   *)
(* length; SpecReplies, the cleanup and parse of an upstream reply on      *)
(* every reply text up to a length; SpecPrompt, the sizes /api/train       *)
(* writes in its prompt, for every row count and split; SpecClient, the    *)
(* state of the browser client (src/public/app.js) under its clicks and    *)
(* the replies to its requests.                                            *)
(*                                                                         *)
(* Node runs each handler to completion between two `await`s, so every     *)
(* action is one such run: the synchronous start of a handler up to its    *)
(* first upstream call, the continuation after the upstream call settles,  *)
(* and the continuation after the backoff timer fires.  Several requests   *)
(* are in flight at once, one per slot of Reqs.                            *)
(*                                                                         *)
(* Texts (upstream replies) are sequences of tokens:                       *)
(*   "J" the fence ```json      "F" the bare fence ```                     *)
(*   "w" a whitespace character "x" a character of prose                   *)
(*   "[" "]" "{" "}" ","        the JSON punctuation                       *)
(*   "s" a JSON string literal  "n" the literal null                       *)
(*   "m" the member prefix "metrics":   "i" the member prefix "modelId":   *)
(*   "u" the member prefix "success":   "f" the literal false              *)
(*   "q" the word quota in prose                                           *)
(* File contents are sequences of characters:                              *)
(*   "a" "b" letters   "0" "1" digits   "," the comma   "Q" the double     *)
(*   quote   "N" the newline   "w" a blank   "false" "true" "null" the     *)
(*   words String() prints for these values (one symbol each)              *)
(* A record (a JavaScript object) is the sequence of its properties in     *)
(* insertion order, each [key, val]; a value is [kind, str], str being     *)
(* what String(value) returns.                                             *)
(* An error message is the set of the substrings the handlers test it for  *)
(* ("quota", "API key", "model") that it contains.                         *)
(***************************************************************************)
EXTENDS Integers, Sequences, FiniteSets, TLC

VARIABLES apiKey, now, trainedModels, req, file, reply, dataStats, client

vars == <<apiKey, now, trainedModels, req, file, reply, dataStats, client>>

\* ------------------------------------------------------------------ bounds
\* Number of requests that can be in flight (or just answered) at once.
NReq == 2
\* Largest reading of the millisecond clock Date.now().
MaxTime == 1
\* Longest content of an uploaded file, in characters (CSV) and in tokens (JSON).
MaxCsvLen == 5
MaxJsonLen == 3
\* Most records in the data a client sends to be exported.
MaxRecords == 2
\* Longest upstream reply, in tokens, when every reply text is tried.
MaxReplyLen == 4
\* Most rows of a training set, when every size and every split is tried.
MaxRowCount == 20
\* Most files the browser client uploads in one session.
MaxUploads == 3

\* ------------------------------------------------------- program constants
ProcessRetries == 3
\* testSplit || 0.2, in percent.
DefaultSplit == 20
TrainRetries == 3
PredictRetries == 3
MinRows == 10

Reqs == 1..NReq
Times == 0..MaxTime

\* process.env.GEMINI_API_KEY: unset, the placeholder of .env.example, or a key.
ApiKeys == {"absent", "placeholder", "valid"}

\* ------------------------------------------------------------ request bodies
\* `data` of a request body: a row count when it is an array, or one of these.
Absent == -1
NonArray == -2
\* A model identifier: model_<t> is the number t; NoId is a missing/empty field,
\* ForeignId an identifier that is not of the form model_<t>.
NoId == -1
ForeignId == -2

DataValues == {Absent, NonArray, MinRows - 1, MinRows}
ModelIds == Times \cup {NoId, ForeignId}

\* req.file is <<>> when the request carries no file, <<f>> for the file f.
NoBody ==
    [data |-> Absent, prompt |-> FALSE, targetColumn |-> FALSE,
     modelType |-> FALSE, modelId |-> NoId, inputData |-> FALSE, file |-> <<>>,
     format |-> "none"]

ProcessBodies ==
    {[NoBody EXCEPT !.data = d, !.prompt = p] :
        d \in {Absent, MinRows}, p \in BOOLEAN}

TrainBodies ==
    {[NoBody EXCEPT !.data = d, !.targetColumn = t, !.modelType = m] :
        d \in DataValues, t \in BOOLEAN, m \in BOOLEAN}

PredictBodies ==
    {[NoBody EXCEPT !.modelId = id, !.inputData = i] :
        id \in ModelIds, i \in BOOLEAN}

\* req.body of /api/export: the data (absent, or an array of records) and the
\* format, "none" when the field is missing.
ExportBodies ==
    {[NoBody EXCEPT !.data = d, !.format = f] :
        d \in {Absent, MinRows}, f \in {"csv", "json", "none"}}

DownloadParams ==
    {[NoBody EXCEPT !.modelId = id] : id \in ModelIds \ {NoId}}

\* JavaScript's !v for a body field.
Falsy(d) == d = Absent

\* ------------------------------------------------------------ upstream world
\* Messages of the errors generateContent can reject with.
UpstreamErrors ==
    { {"quota"},       \* 429: "You exceeded your current quota"
      {"API key"},     \* 400: "API key not valid"
      {"model"},       \* 404: "models/... is not found"
      {} }             \* "fetch failed"

\* The errors the upstream service rejects a call with, given the credential:
\* without a real key it is never reached ("fetch failed") or refuses the key.
UpstreamErrorsWith(key) ==
    IF key = "valid" THEN UpstreamErrors ELSE { {"API key"}, {} }

\* Texts the upstream model can reply with.
Replies ==
    { <<"{", "m", "s", "}">>,             \* {"metrics":"s"}
      <<"J", "w", "{", "i", "s", "}", "w", "F">>,   \* fenced {"modelId":"s"}
      <<"x", "[", "s", "]">>,             \* prose, then an array
      <<"x", "{", "x", "}">>,             \* braces around prose
      <<"x", "w", "x">>,                  \* prose only
      <<"[", "q", "]">>,                  \* brackets around the word quota
      <<"{", "m", "s", ",", "u", "f", "}">>,   \* {"metrics":"s","success":false}
      <<"n">> }                           \* null

\* ------------------------------------------------------------------- texts
\* The characters String.prototype.trim and \s take for whitespace.
WhiteSpace == {"w", "N"}

RECURSIVE TrimStart(_)
TrimStart(s) ==
    IF s # <<>> /\ Head(s) \in WhiteSpace THEN TrimStart(Tail(s)) ELSE s

RECURSIVE TrimEnd(_)
TrimEnd(s) ==
    IF s # <<>> /\ s[Len(s)] \in WhiteSpace THEN TrimEnd(SubSeq(s, 1, Len(s) - 1)) ELSE s

\* String.prototype.trim
Trim(s) == TrimEnd(TrimStart(s))

\* s.replace(/<t>\s*/g, ''): every token t goes, with the whitespace after it.
RECURSIVE RemoveFence(_, _)
RemoveFence(s, t) ==
    IF s = <<>> THEN <<>>
    ELSE IF Head(s) = t THEN RemoveFence(TrimStart(Tail(s)), t)
    ELSE <<Head(s)>> \o RemoveFence(Tail(s), t)

\* CleanResponse, the bare fences left in the text.
CleanResponseKeepBare(text) == Trim(RemoveFence(text, "J"))

\* responseText.replace(/```json\s*/gi, '').replace(/```\s*/g, '').trim()
CleanResponse(text) == Trim(RemoveFence(RemoveFence(text, "J"), "F"))

\* The text without its whitespace (JSON allows whitespace between any tokens).
RECURSIVE Squeeze(_)
Squeeze(s) ==
    IF s = <<>> THEN <<>>
    ELSE IF Head(s) = "w" THEN Squeeze(Tail(s))
    ELSE <<Head(s)>> \o Squeeze(Tail(s))

\* The JSON grammar over tokens: the position after the value that starts at
\* position i of s, or 0 when no value starts there.
RECURSIVE ParseValue(_, _), ParseElements(_, _), ParseMembers(_, _)
ParseValue(s, i) ==
    IF i > Len(s) THEN 0
    ELSE IF s[i] \in {"s", "n", "f"} THEN i + 1
    ELSE IF s[i] = "[" THEN
        IF i + 1 <= Len(s) /\ s[i + 1] = "]" THEN i + 2 ELSE ParseElements(s, i + 1)
    ELSE IF s[i] = "{" THEN
        IF i + 1 <= Len(s) /\ s[i + 1] = "}" THEN i + 2 ELSE ParseMembers(s, i + 1)
    ELSE 0

ParseElements(s, i) ==
    LET j == ParseValue(s, i) IN
    IF j = 0 \/ j > Len(s) THEN 0
    ELSE IF s[j] = "]" THEN j + 1
    ELSE IF s[j] = "," THEN ParseElements(s, j + 1)
    ELSE 0

ParseMembers(s, i) ==
    IF i > Len(s) \/ s[i] \notin {"m", "i", "u"} THEN 0
    ELSE LET j == ParseValue(s, i + 1) IN
         IF j = 0 \/ j > Len(s) THEN 0
         ELSE IF s[j] = "}" THEN j + 1
         ELSE IF s[j] = "," THEN ParseMembers(s, j + 1)
         ELSE 0

\* Whether JSON.parse(text) returns; the value it returns is Squeeze(text).
ValidJSON(text) ==
    LET c == Squeeze(text) IN ParseValue(c, 1) = Len(c) + 1

\* Positions of token t in s.
Positions(s, t) == {i \in 1..Len(s) : s[i] = t}

Max(S) == CHOOSE x \in S : \A y \in S : y <= x
Min(S) == CHOOSE x \in S : \A y \in S : x <= y

\* text.match(/\[[\s\S]*\]|\{[\s\S]*\}/) when brackets, text.match(/\{[\s\S]*\}/)
\* otherwise: the leftmost position where an alternative matches, greedy to the
\* last closer; <<>> stands for null (a match is never empty).
JsonMatch(text, brackets) ==
    LET Opens(o, c) == {i \in Positions(text, o) : \E j \in Positions(text, c) : j > i}
        starts == (IF brackets THEN Opens("[", "]") ELSE {}) \cup Opens("{", "}")
    IN IF starts = {} THEN <<>>
       ELSE LET i == Min(starts)
                c == IF text[i] = "[" THEN "]" ELSE "}"
            IN SubSeq(text, i, Max(Positions(text, c)))

\* The nesting depth of each token of a parsed value v, from position i on,
\* d being the depth before position i.
RECURSIVE Depths(_, _, _)
Depths(v, i, d) ==
    IF i > Len(v) THEN <<>>
    ELSE IF v[i] \in {"[", "{"} THEN <<d>> \o Depths(v, i + 1, d + 1)
    ELSE IF v[i] \in {"]", "}"} THEN <<d - 1>> \o Depths(v, i + 1, d - 1)
    ELSE <<d>> \o Depths(v, i + 1, d)

\* Whether value.<key> of a parsed value is neither undefined nor null: the
\* value is an object whose last top-level member <key> is not null.
HasMember(v, key) ==
    /\ v # <<>>
    /\ v[1] = "{"
    /\ LET dep == Depths(v, 1, 0)
           at == {i \in Positions(v, key) : dep[i] = 1}
       IN at # {} /\ v[Max(at) + 1] # "n"

\* The words (of those the handlers look for) in the message of the SyntaxError
\* JSON.parse throws for text: engines that quote the text in the message put
\* its words there, the others none.
SyntaxErrorMessages(text) ==
    { {} } \cup { {"quota"} : i \in Positions(text, "q") }

\* --------------------------------------------------------------------- CSV
\* s.split(sep): the pieces of s between the separators (one piece, s itself,
\* when there is none).
RECURSIVE Split(_, _)
Split(s, sep) ==
    IF sep \notin {s[i] : i \in 1..Len(s)} THEN <<s>>
    ELSE LET i == Min(Positions(s, sep))
         IN <<SubSeq(s, 1, i - 1)>> \o Split(SubSeq(s, i + 1, Len(s)), sep)

\* pieces.join(sep)
RECURSIVE Join(_, _)
Join(pieces, sep) ==
    IF pieces = <<>> THEN <<>>
    ELSE IF Len(pieces) = 1 THEN pieces[1]
    ELSE pieces[1] \o <<sep>> \o Join(Tail(pieces), sep)

\* The loop of parseCSVLine from character i on.
RECURSIVE ParseLineFrom(_, _, _, _, _)
ParseLineFrom(line, i, current, inQuotes, result) ==
    IF i > Len(line) THEN Append(result, current)
    ELSE IF line[i] = "Q" THEN ParseLineFrom(line, i + 1, current, ~inQuotes, result)
    ELSE IF line[i] = "," /\ ~inQuotes
        THEN ParseLineFrom(line, i + 1, <<>>, inQuotes, Append(result, current))
    ELSE ParseLineFrom(line, i + 1, Append(current, line[i]), inQuotes, result)

\* parseCSVLine, quotes taken for ordinary characters.
parseCSVLineNoQuotes(line) == Split(line, ",")

\* parseCSVLine(line)
parseCSVLine(line) == ParseLineFrom(line, 1, <<>>, FALSE, <<>>)

\* A string value.
Str(chars) == [kind |-> "string", str |-> chars]

\* undefined, what reading a property the record lacks returns.
Undefined == [kind |-> "undefined", str |-> <<"undefined">>]

\* Object.keys(row)
Keys(row) == [i \in 1..Len(row) |-> row[i].key]

\* row[key]
Get(row, key) ==
    IF \E i \in 1..Len(row) : row[i].key = key
    THEN row[CHOOSE i \in 1..Len(row) : row[i].key = key].val
    ELSE Undefined

\* row[key] = val: a new key goes last, a known key keeps its place.
Put(row, key, val) ==
    IF \E i \in 1..Len(row) : row[i].key = key
    THEN [i \in 1..Len(row) |->
             IF row[i].key = key THEN [key |-> key, val |-> val] ELSE row[i]]
    ELSE Append(row, [key |-> key, val |-> val])

\* headers.forEach((header, index) => { row[header.trim()] = values[index]?.trim() || '' })
\* from index i on.
RECURSIVE FillRow(_, _, _, _)
FillRow(headers, values, i, row) ==
    IF i > Len(headers) THEN row
    ELSE FillRow(headers, values, i + 1,
                 Put(row, Trim(headers[i]),
                     Str(IF i <= Len(values) THEN Trim(values[i]) ELSE <<>>)))

\* parseCSV(content)
parseCSV(content) ==
    LET lines == Split(Trim(content), "N")
        headers == parseCSVLine(lines[1])
    IN [i \in 1..(Len(lines) - 1) |->
           FillRow(headers, parseCSVLine(lines[i + 1]), 1, <<>>)]

\* JavaScript's truthiness of a value.
Truthy(v) ==
    /\ v.kind \notin {"undefined", "null"}
    /\ v.str \notin {<<>>, <<"0">>, <<"false">>} \/ (v.kind = "string" /\ v.str # <<>>)

\* val.replace(/"/g, '""')
RECURSIVE DoubleQuotes(_)
DoubleQuotes(val) ==
    IF val = <<>> THEN <<>>
    ELSE (IF Head(val) = "Q" THEN <<"Q", "Q">> ELSE <<Head(val)>>)
         \o DoubleQuotes(Tail(val))

\* The field dataToCSV writes for the string val.
Escape(val) ==
    IF \E i \in 1..Len(val) : val[i] \in {",", "Q", "N"}
    THEN <<"Q">> \o DoubleQuotes(val) \o <<"Q">>
    ELSE val

\* The field dataToCSV writes for row[h]: String(row[h] || ''), escaped.
CsvField(row, h) ==
    LET v == Get(row, h) IN Escape(IF Truthy(v) THEN v.str ELSE <<>>)

\* dataToCSV(data), data an array of records.
dataToCSV(data) ==
    IF Len(data) = 0 THEN <<>>
    ELSE LET headers == Keys(data[1])
             Line(row) == Join([j \in 1..Len(headers) |-> CsvField(row, headers[j])], ",")
         IN Join(<<Join(headers, ",")>> \o [i \in 1..Len(data) |-> Line(data[i])], "N")

\* ------------------------------------------------------------------- files
\* A file name is its stem and its suffix (the last dot and what follows it).
FileNames ==
    {[stem |-> st, suffix |-> su] :
        st \in {"data", ""}, su \in {".json", ".JSON", ".csv", ".Csv", ".txt", ""}}

\* path.extname(filename): the suffix, none for a name that starts with its dot.
ExtName(filename) == IF filename.stem = "" THEN "" ELSE filename.suffix

\* String.prototype.toLowerCase, on the suffixes.
ToLowerCase(str) ==
    IF str = ".JSON" THEN ".json" ELSE IF str = ".Csv" THEN ".csv" ELSE str

\* Contents of a file, in JSON tokens and in characters.
Contents(alphabet, n) == UNION {[1..k -> alphabet] : k \in 0..n}
JsonContents == Contents({"[", "]", "{", "}", ",", "s", "n", "m", "x", "w"}, MaxJsonLen)
CsvContents == Contents({"a", "b", ",", "Q", "N", "w"}, MaxCsvLen)

\* The files a client can upload: a file with a JSON suffix is given in JSON
\* tokens, any other in characters.
Files ==
    {[name |-> nm, content |-> c] :
        nm \in {f \in FileNames : ToLowerCase(f.suffix) = ".json"}, c \in JsonContents}
    \cup
    {[name |-> nm, content |-> c] :
        nm \in {f \in FileNames : ToLowerCase(f.suffix) # ".json"}, c \in CsvContents}

\* What parseFileContent returns.
Parsed(type, data) == [type |-> type, data |-> data]

\* The try block of parseFileContent: what it returns, or that it threw
\* (JSON.parse does, on a text that is not JSON).
TryParse(content, ext) ==
    IF ext = ".json" THEN
        IF ValidJSON(content) THEN [threw |-> FALSE, type |-> "json", data |-> Squeeze(content)]
        ELSE [threw |-> TRUE, type |-> "none", data |-> <<>>]
    ELSE IF ext = ".csv" THEN [threw |-> FALSE, type |-> "csv", data |-> parseCSV(content)]
    ELSE [threw |-> FALSE, type |-> "text", data |-> content]

\* parseFileContent with no catch block: the error leaves the function.
parseFileContentNoCatch(content, filename) ==
    LET got == TryParse(content, ToLowerCase(ExtName(filename))) IN
    IF got.threw THEN Parsed("threw", <<>>) ELSE Parsed(got.type, got.data)

\* parseFileContent(buffer, filename)
parseFileContent(content, filename) ==
    LET got == TryParse(content, ToLowerCase(ExtName(filename))) IN
    IF got.threw THEN Parsed("text", content) ELSE Parsed(got.type, got.data)

\* The values of the fields of the records a client sends.
ClientValues ==
    {Str(<<>>), Str(<<"a">>), Str(<<",">>), Str(<<"Q">>), Str(<<"N">>), Str(<<"0">>),
     [kind |-> "number", str |-> <<"0">>], [kind |-> "number", str |-> <<"1">>],
     [kind |-> "boolean", str |-> <<"false">>], [kind |-> "boolean", str |-> <<"true">>],
     [kind |-> "null", str |-> <<"null">>]}

\* The records a client sends: property a, or properties a and b.
ClientRecords ==
    {<<[key |-> <<"a">>, val |-> v]>> : v \in ClientValues}
    \cup {<<[key |-> <<"a">>, val |-> v], [key |-> <<"b">>, val |-> u]>> :
             v \in ClientValues, u \in ClientValues}

\* `data` of the body of /api/export: an array of records.
ClientData == UNION {[1..k -> ClientRecords] : k \in 1..MaxRecords}

\* No file in hand.
NoFile ==
    [stage |-> "none", origin |-> "none", name |-> [stem |-> "", suffix |-> ""],
     content |-> <<>>, status |-> 0, type |-> "none", data |-> <<>>,
     out |-> <<>>, again |-> <<>>]

\* app.post('/api/upload') for the file f: the answer, 500 from the catch
\* block should parseFileContent throw.
UploadRespond(f) ==
    LET parsed == parseFileContent(f.content, f.name) IN
    [NoFile EXCEPT !.stage = "data", !.origin = "upload", !.name = f.name,
                   !.content = f.content,
                   !.status = IF parsed.type = "threw" THEN 500 ELSE 200,
                   !.type = parsed.type, !.data = parsed.data]

\* The files of the upload requests that run among the other requests.
SampleFiles ==
    {[name |-> [stem |-> "data", suffix |-> ".json"], content |-> <<"{">>],
     [name |-> [stem |-> "data", suffix |-> ".csv"], content |-> <<"a", "N", "b">>]}

UploadBodies ==
    {NoBody} \cup {[NoBody EXCEPT !.file = <<f>>] : f \in SampleFiles}

\* ------------------------------------------------------------------ requests
NoText == <<>>
NoData == [wrap |-> FALSE, val |-> <<>>]

\* A slot with no request in it.
Idle ==
    [route |-> "none", pc |-> "idle", body |-> NoBody, retries |-> 0,
     calls |-> 0, waits |-> 0, last |-> "none", sent |-> 0, quotaOnly |-> TRUE,
     status |-> 0, cause |-> "none",
     msg |-> {}, text |-> NoText, data |-> NoData, key |-> NoId]

\* res.status(status).json(...): the request is answered.
Answer(q, status, cause) ==
    [q EXCEPT !.pc = "done", !.status = status, !.cause = cause,
              !.sent = q.sent + 1]

\* The catch blocks of the three routes.
ErrorStatus(route, msg) ==
    IF route = "process" THEN
        IF "API key" \in msg THEN 400
        ELSE IF "quota" \in msg THEN 429
        ELSE IF "model" \in msg THEN 400
        ELSE 500
    ELSE 500

\* let retries = n; while (retries > 0) { try { result = await model.generateContent(...)
EnterLoop(q, n) ==
    IF n > 0 THEN [q EXCEPT !.pc = "call", !.retries = n, !.calls = 1]
    ELSE Answer([q EXCEPT !.retries = n], ErrorStatus(q.route, {}), "loop")

\* ShouldRetry, the wait taken before every rethrow as well.
ShouldRetryAlways(route, msg, retries) == TRUE

\* The condition under which catch (retryError) waits and loops, retries
\* already decremented.
ShouldRetry(route, msg, retries) ==
    IF route = "process" THEN "quota" \in msg /\ retries > 0
    ELSE retries > 0

\* Caught, the decrement of retries forgotten.
CaughtNoDecrement(q, msg) ==
    LET q1 == [q EXCEPT !.msg = msg, !.last = "failed",
                        !.quotaOnly = q.quotaOnly /\ "quota" \in msg]
    IN IF ShouldRetry(q.route, msg, q.retries)
       THEN [q1 EXCEPT !.pc = "backoff", !.waits = q.waits + 1]
       ELSE Answer(q1, ErrorStatus(q.route, msg), "upstream")

\* catch (retryError) { retries--; if (...) { await timeout } else { throw retryError } }
Caught(q, msg) ==
    LET n == q.retries - 1
        q1 == [q EXCEPT !.retries = n, !.msg = msg, !.last = "failed",
                        !.quotaOnly = q.quotaOnly /\ "quota" \in msg]
    IN IF ShouldRetry(q.route, msg, n)
       THEN [q1 EXCEPT !.pc = "backoff", !.waits = q.waits + 1]
       ELSE Answer(q1, ErrorStatus(q.route, msg), "upstream")

\* The backoff timer fired: the loop tests retries > 0 and calls again; past the
\* loop with no reply, responseText.replace throws a TypeError.
AfterBackoff(q) ==
    IF q.retries > 0 THEN [q EXCEPT !.pc = "call", !.calls = q.calls + 1, !.msg = {}]
    ELSE Answer([q EXCEPT !.msg = {}], ErrorStatus(q.route, {}), "loop")

\* ------------------------------------------------------- response recovery
Recovered(v) == [ok |-> TRUE, data |-> [wrap |-> FALSE, val |-> Squeeze(v)], msg |-> {}]
Wrapped(t) == [ok |-> TRUE, data |-> [wrap |-> TRUE, val |-> t], msg |-> {}]
Thrown(msg) == [ok |-> FALSE, data |-> NoData, msg |-> msg]

\* /api/process: parse, else parse the bracketed or braced substring, else wrap.
\* synMsg is the message of the SyntaxError, should the substring not parse.
ProcessRecover(text, synMsg) ==
    LET responseText == CleanResponse(Trim(text)) IN
    IF ValidJSON(responseText) THEN Recovered(responseText)
    ELSE LET jsonMatch == JsonMatch(responseText, TRUE) IN
         IF jsonMatch # <<>> THEN
             IF ValidJSON(jsonMatch) THEN Recovered(jsonMatch) ELSE Thrown(synMsg)
         ELSE Wrapped(responseText)

\* TrainRecover, wrapping the text as /api/process does instead of throwing.
TrainRecoverWrap(text, synMsg) ==
    LET responseText == CleanResponse(Trim(text)) IN
    IF ValidJSON(responseText) THEN Recovered(responseText)
    ELSE LET jsonMatch == JsonMatch(responseText, FALSE) IN
         IF jsonMatch # <<>> /\ ValidJSON(jsonMatch) THEN Recovered(jsonMatch)
         ELSE Wrapped(responseText)

\* /api/train and /api/predict: parse, else parse the braced substring, else throw.
TrainRecover(text, synMsg) ==
    LET responseText == CleanResponse(Trim(text)) IN
    IF ValidJSON(responseText) THEN Recovered(responseText)
    ELSE LET jsonMatch == JsonMatch(responseText, FALSE) IN
         IF jsonMatch # <<>> THEN
             IF ValidJSON(jsonMatch) THEN Recovered(jsonMatch) ELSE Thrown(synMsg)
         ELSE Thrown({})

PredictRecover(text, synMsg) ==
    LET responseText == CleanResponse(Trim(text)) IN
    IF ValidJSON(responseText) THEN Recovered(responseText)
    ELSE LET jsonMatch == JsonMatch(responseText, FALSE) IN
         IF jsonMatch # <<>> THEN
             IF ValidJSON(jsonMatch) THEN Recovered(jsonMatch) ELSE Thrown(synMsg)
         ELSE Thrown({})

\* What a route makes of the reply text: the value it answers with, or the
\* error thrown.  quoting tells whether the engine quotes the text it could not
\* parse in the SyntaxError's message.
RouteRecover(route, text, quoting) ==
    LET jsonMatch == JsonMatch(CleanResponse(Trim(text)), route = "process")
        synMsg == IF quoting /\ Positions(jsonMatch, "q") # {} THEN {"quota"} ELSE {}
    IN IF route = "process" THEN ProcessRecover(text, synMsg)
       ELSE IF route = "train" THEN TrainRecover(text, synMsg)
       ELSE PredictRecover(text, synMsg)

\* Every text the upstream model can reply with, up to a length.
ReplyTexts ==
    UNION {[1..k -> {"J", "F", "w", "x", "q", "[", "]", "{", "}", "s", "m"}] :
              k \in 0..MaxReplyLen}

\* The text inside a fenced code block: the opening fence (```json or ```), the
\* text on lines of its own, the closing fence; pad is whitespace around it all.
Fenced(text, open, pad) ==
    pad \o <<open, "w">> \o text \o <<"w", "F">> \o pad

\* No reply under study.
NoReply ==
    [stage |-> "none", route |-> "none", text |-> NoText, open |-> "F",
     pad |-> <<>>, quoting |-> FALSE, plain |-> Thrown({}), fenced |-> Thrown({})]

\* ------------------------------------------------------------------ registry
NoModels == [k \in {} |-> [metrics |-> FALSE]]

\* RegistrySet, keeping the newest entry only.
RegistrySetEvict(reg, modelId, info) ==
    [k \in {modelId} |-> info]

\* trainedModels.set(modelId, info)
RegistrySet(reg, modelId, info) ==
    [k \in DOMAIN reg \cup {modelId} |-> IF k = modelId THEN info ELSE reg[k]]

\* `model_${Date.now()}`
NewModelId(t) == t

\* --------------------------------------------------------------- handlers
\* Each handler's run from the request to its first await or its answer.

\* UploadBegin, req.file not tested: reading req.file.buffer throws a TypeError
\* when there is no file, which the catch block answers.
UploadBeginNoFileCheck(body) ==
    LET q == [Idle EXCEPT !.route = "upload", !.body = body] IN
    IF body.file = <<>> THEN Answer(q, 500, "prompt")
    ELSE Answer(q, UploadRespond(body.file[1]).status, "none")

\* app.post('/api/upload')
UploadBegin(body) ==
    LET q == [Idle EXCEPT !.route = "upload", !.body = body] IN
    IF body.file = <<>> THEN Answer(q, 400, "validation")
    ELSE Answer(q, UploadRespond(body.file[1]).status, "none")

\* app.post('/api/export'): with format csv and no data, dataToCSV([undefined])
\* throws a TypeError at Object.keys(data[0]), which the catch block answers;
\* JSON.stringify throws nothing on a parsed body.
ExportRespond(body) ==
    LET q == [Idle EXCEPT !.route = "export", !.body = body] IN
    IF body.format = "csv" /\ body.data = Absent THEN Answer(q, 500, "convert")
    ELSE Answer(q, 200, "none")

\* app.get('/api/health')
HealthRespond ==
    Answer([Idle EXCEPT !.route = "health"], 200, "none")

\* app.post('/api/process'), to the first generateContent.
ProcessBegin(body, key) ==
    LET q == [Idle EXCEPT !.route = "process", !.body = body] IN
    IF Falsy(body.data) \/ ~body.prompt THEN Answer(q, 400, "validation")
    ELSE IF key \in {"absent", "placeholder"} THEN Answer(q, 400, "config")
    ELSE EnterLoop(q, ProcessRetries)

\* TrainBegin, the row test off by one (data.length <= 10).
TrainBeginOffByOne(body) ==
    LET q == [Idle EXCEPT !.route = "train", !.body = body] IN
    IF Falsy(body.data) \/ ~body.targetColumn \/ ~body.modelType
        THEN Answer(q, 400, "validation")
    ELSE IF body.data = NonArray \/ body.data <= MinRows
        THEN Answer(q, 400, "validation")
    ELSE EnterLoop(q, TrainRetries)

\* app.post('/api/train'), to the first generateContent.  The rows of an array
\* are records (what the upload parser and the client send), so Object.keys(data[0])
\* returns.
TrainBegin(body) ==
    LET q == [Idle EXCEPT !.route = "train", !.body = body] IN
    IF Falsy(body.data) \/ ~body.targetColumn \/ ~body.modelType
        THEN Answer(q, 400, "validation")
    ELSE IF body.data = NonArray \/ body.data < MinRows
        THEN Answer(q, 400, "validation")
    ELSE EnterLoop(q, TrainRetries)

\* PredictBegin, the registry lookup's result not tested.
PredictBeginNoLookup(body, reg) ==
    LET q == [Idle EXCEPT !.route = "predict", !.body = body] IN
    IF body.modelId = NoId \/ ~body.inputData THEN Answer(q, 400, "validation")
    ELSE EnterLoop(q, PredictRetries)

\* app.post('/api/predict'), to the first generateContent.  Building the prompt
\* reads modelInfo.metrics.accuracy, a TypeError when metrics is undefined or null.
PredictBegin(body, reg) ==
    LET q == [Idle EXCEPT !.route = "predict", !.body = body] IN
    IF body.modelId = NoId \/ ~body.inputData THEN Answer(q, 400, "validation")
    ELSE IF body.modelId \notin DOMAIN reg THEN Answer(q, 404, "notfound")
    ELSE IF ~reg[body.modelId].metrics
        THEN Answer(q, ErrorStatus("predict", {}), "prompt")
    ELSE EnterLoop(q, PredictRetries)

\* app.get('/api/model/:modelId/download')
DownloadRespond(params, reg) ==
    LET q == [Idle EXCEPT !.route = "download", !.body = params] IN
    IF params.modelId \notin DOMAIN reg THEN Answer(q, 404, "notfound")
    ELSE Answer(q, 200, "none")

\* ProcessFinish, the catch block answering after the try block has answered.
ProcessFinishTwice(q, text, synMsg) ==
    LET got == ProcessRecover(text, synMsg)
        q1 == [q EXCEPT !.text = text, !.last = "replied", !.quotaOnly = TRUE]
    IN IF got.ok
       THEN Answer(Answer([q1 EXCEPT !.data = got.data], 200, "none"), 500, "none")
       ELSE Answer([q1 EXCEPT !.msg = got.msg], ErrorStatus("process", got.msg), "parse")

\* /api/process after the reply: recover and answer.
ProcessFinish(q, text, synMsg) ==
    LET got == ProcessRecover(text, synMsg)
        q1 == [q EXCEPT !.text = text, !.last = "replied", !.quotaOnly = TRUE]
    IN IF got.ok THEN Answer([q1 EXCEPT !.data = got.data], 200, "none")
       ELSE Answer([q1 EXCEPT !.msg = got.msg], ErrorStatus("process", got.msg), "parse")

\* /api/train after the reply, up to the store: the recovered value, or the
\* error thrown (trainingResult.metrics is a TypeError when the value is null).
TrainResult(text, synMsg) ==
    LET got == TrainRecover(text, synMsg) IN
    IF got.ok /\ got.data.val = <<"n">> THEN Thrown({}) ELSE got

\* The entry /api/train stores.
ModelInfo(body, trainingResult) ==
    [metrics |-> HasMember(trainingResult, "m")]

\* The body of the success answer of /api/train,
\* {success: true, modelId: modelId, ...trainingResult, featureColumns}: the
\* members of the parsed reply come after success and modelId and replace them
\* (no token stands for true, so a member "success" of the reply is not true).
TrainResponse(modelId, trainingResult) ==
    LET own(key) == trainingResult # <<>> /\ trainingResult[1] = "{"
                    /\ \E i \in Positions(trainingResult, key) :
                           Depths(trainingResult, 1, 0)[i] = 1
    IN [success |-> ~own("u"), modelId |-> IF own("i") THEN ForeignId ELSE modelId]

\* /api/train after the reply: the answer.
TrainFinish(q, text, synMsg, t) ==
    LET got == TrainResult(text, synMsg)
        q1 == [q EXCEPT !.text = text, !.last = "replied", !.quotaOnly = TRUE]
    IN IF got.ok
       THEN Answer([q1 EXCEPT !.data = got.data, !.key = NewModelId(t)], 200, "none")
       ELSE Answer([q1 EXCEPT !.msg = got.msg], ErrorStatus("train", got.msg), "parse")

\* /api/train after the reply: the registry.
TrainStore(reg, q, text, synMsg, t) ==
    LET got == TrainResult(text, synMsg) IN
    IF got.ok THEN RegistrySet(reg, NewModelId(t), ModelInfo(q.body, got.data.val))
    ELSE reg

\* /api/predict after the reply: recover and answer.
PredictFinish(q, text, synMsg) ==
    LET got == PredictRecover(text, synMsg)
        q1 == [q EXCEPT !.text = text, !.last = "replied", !.quotaOnly = TRUE]
    IN IF got.ok THEN Answer([q1 EXCEPT !.data = got.data], 200, "none")
       ELSE Answer([q1 EXCEPT !.msg = got.msg], ErrorStatus("predict", got.msg), "parse")

\* ------------------------------------------------------------ train prompt
\* Fractions (testSplit) are whole percentages; NoSplit is a missing field.
Percent == 100
NoSplit == -1

\* Math.floor(x / Percent) for x >= 0.
Floor(x) == x \div Percent

\* dataStats.testSplit: testSplit || 0.2
TestSplit(testSplit) ==
    IF testSplit = NoSplit \/ testSplit = 0 THEN DefaultSplit ELSE testSplit

\* Math.floor(dataStats.totalRows * (1 - dataStats.testSplit))
TrainSize(totalRows, testSplit) == Floor(totalRows * (Percent - testSplit))

\* Math.floor(dataStats.totalRows * dataStats.testSplit)
TestSize(totalRows, testSplit) == Floor(totalRows * testSplit)

\* No prompt under study.
NoStats ==
    [stage |-> "none", totalRows |-> 0, testSplit |-> NoSplit,
     trainSize |-> 0, testSize |-> 0]

\* ---------------------------------------------------------- browser client
Null == 0

\* The client before any file: `state` of app.js (a dataset is the number of
\* the upload it came from, processedData and trainedModelId carry the number
\* of the dataset they were derived from), and the requests awaiting replies.
NoClient ==
    [originalData |-> Null, processedData |-> Null, trainedModelId |-> Null,
     chosen |-> 0, uploading |-> {}, processing |-> Null, training |-> Null]

\* ------------------------------------------------------------------- actions
Init ==
    /\ apiKey \in ApiKeys
    /\ now = 0
    /\ trainedModels = NoModels
    /\ req = [r \in Reqs |-> Idle]
    /\ file = NoFile
    /\ reply = NoReply
    /\ dataStats = NoStats
    /\ client = NoClient

Upload(r) ==
    /\ req[r].pc = "idle"
    /\ \E body \in UploadBodies :
          req' = [req EXCEPT ![r] = UploadBegin(body)]
    /\ UNCHANGED <<apiKey, now, trainedModels, file, reply, dataStats, client>>

ProcessStart(r) ==
    /\ req[r].pc = "idle"
    /\ \E body \in ProcessBodies :
          req' = [req EXCEPT ![r] = ProcessBegin(body, apiKey)]
    /\ UNCHANGED <<apiKey, now, trainedModels, file, reply, dataStats, client>>

TrainStart(r) ==
    /\ req[r].pc = "idle"
    /\ \E body \in TrainBodies :
          req' = [req EXCEPT ![r] = TrainBegin(body)]
    /\ UNCHANGED <<apiKey, now, trainedModels, file, reply, dataStats, client>>

PredictStart(r) ==
    /\ req[r].pc = "idle"
    /\ \E body \in PredictBodies :
          req' = [req EXCEPT ![r] = PredictBegin(body, trainedModels)]
    /\ UNCHANGED <<apiKey, now, trainedModels, file, reply, dataStats, client>>

Export(r) ==
    /\ req[r].pc = "idle"
    /\ \E body \in ExportBodies :
          req' = [req EXCEPT ![r] = ExportRespond(body)]
    /\ UNCHANGED <<apiKey, now, trainedModels, file, reply, dataStats, client>>

Health(r) ==
    /\ req[r].pc = "idle"
    /\ req' = [req EXCEPT ![r] = HealthRespond]
    /\ UNCHANGED <<apiKey, now, trainedModels, file, reply, dataStats, client>>

\* Download, the entry taken out of the registry once sent.
DownloadEvicts(r) ==
    /\ req[r].pc = "idle"
    /\ \E params \in DownloadParams :
          /\ req' = [req EXCEPT ![r] = DownloadRespond(params, trainedModels)]
          /\ trainedModels' =
                [k \in DOMAIN trainedModels \ {params.modelId} |-> trainedModels[k]]
    /\ UNCHANGED <<apiKey, now, file, reply, dataStats, client>>

Download(r) ==
    /\ req[r].pc = "idle"
    /\ \E params \in DownloadParams :
          req' = [req EXCEPT ![r] = DownloadRespond(params, trainedModels)]
    /\ UNCHANGED <<apiKey, now, trainedModels, file, reply, dataStats, client>>

\* UpstreamFails, were the backoff a wait that holds the thread: no other
\* request's continuation runs while a request is in its backoff.
UpstreamFailsBlocked(r) ==
    /\ req[r].pc = "call"
    /\ \A o \in Reqs \ {r} : req[o].pc # "backoff"
    /\ \E msg \in UpstreamErrorsWith(apiKey) :
          req' = [req EXCEPT ![r] = Caught(req[r], msg)]
    /\ UNCHANGED <<apiKey, now, trainedModels, file, reply, dataStats, client>>

\* generateContent (or response.text()) rejects.
UpstreamFails(r) ==
    /\ req[r].pc = "call"
    /\ \E msg \in UpstreamErrorsWith(apiKey) :
          req' = [req EXCEPT ![r] = Caught(req[r], msg)]
    /\ UNCHANGED <<apiKey, now, trainedModels, file, reply, dataStats, client>>

\* setTimeout(resolve, 2000) fires.
BackoffDone(r) ==
    /\ req[r].pc = "backoff"
    /\ req' = [req EXCEPT ![r] = AfterBackoff(req[r])]
    /\ UNCHANGED <<apiKey, now, trainedModels, file, reply, dataStats, client>>

\* generateContent resolves with a reply text, which takes a real credential.
ProcessReply(r) ==
    /\ apiKey = "valid"
    /\ req[r].pc = "call"
    /\ req[r].route = "process"
    /\ \E text \in Replies : \E synMsg \in SyntaxErrorMessages(text) :
          req' = [req EXCEPT ![r] = ProcessFinish(req[r], text, synMsg)]
    /\ UNCHANGED <<apiKey, now, trainedModels, file, reply, dataStats, client>>

TrainReply(r) ==
    /\ apiKey = "valid"
    /\ req[r].pc = "call"
    /\ req[r].route = "train"
    /\ \E text \in Replies : \E synMsg \in SyntaxErrorMessages(text) :
          /\ req' = [req EXCEPT ![r] = TrainFinish(req[r], text, synMsg, now)]
          /\ trainedModels' = TrainStore(trainedModels, req[r], text, synMsg, now)
    /\ UNCHANGED <<apiKey, now, file, reply, dataStats, client>>

PredictReply(r) ==
    /\ apiKey = "valid"
    /\ req[r].pc = "call"
    /\ req[r].route = "predict"
    /\ \E text \in Replies : \E synMsg \in SyntaxErrorMessages(text) :
          req' = [req EXCEPT ![r] = PredictFinish(req[r], text, synMsg)]
    /\ UNCHANGED <<apiKey, now, trainedModels, file, reply, dataStats, client>>

\* The handler has returned; the slot takes the next request.
Forget(r) ==
    /\ req[r].pc = "done"
    /\ req' = [req EXCEPT ![r] = Idle]
    /\ UNCHANGED <<apiKey, now, trainedModels, file, reply, dataStats, client>>

\* The millisecond clock advances.
Tick ==
    /\ now < MaxTime
    /\ now' = now + 1
    /\ UNCHANGED <<apiKey, trainedModels, req, file, reply, dataStats, client>>

Next ==
    \/ \E r \in Reqs : Upload(r)
    \/ \E r \in Reqs : ProcessStart(r)
    \/ \E r \in Reqs : TrainStart(r)
    \/ \E r \in Reqs : PredictStart(r)
    \/ \E r \in Reqs : Export(r)
    \/ \E r \in Reqs : Health(r)
    \/ \E r \in Reqs : Download(r)
    \/ \E r \in Reqs : UpstreamFails(r)
    \/ \E r \in Reqs : BackoffDone(r)
    \/ \E r \in Reqs : ProcessReply(r)
    \/ \E r \in Reqs : TrainReply(r)
    \/ \E r \in Reqs : PredictReply(r)
    \/ \E r \in Reqs : Forget(r)
    \/ Tick

Spec == Init /\ [][Next]_vars

\* ------------------------------------------------- the file conversions alone
\* One file goes through upload, export as CSV and upload again; or a client
\* sends records of its own to be exported.
InitFiles ==
    /\ apiKey = "absent"
    /\ now = 0
    /\ trainedModels = NoModels
    /\ req = [r \in Reqs |-> Idle]
    /\ reply = NoReply
    /\ dataStats = NoStats
    /\ client = NoClient
    /\ \/ \E f \in Files :
             file = [NoFile EXCEPT !.stage = "file", !.origin = "upload",
                                   !.name = f.name, !.content = f.content]
       \/ \E data \in ClientData :
             file = [NoFile EXCEPT !.stage = "data", !.origin = "client",
                                   !.type = "csv", !.data = data]

\* app.post('/api/upload') with the file.
UploadFile ==
    /\ file.stage = "file"
    /\ file' = UploadRespond(file)
    /\ UNCHANGED <<apiKey, now, trainedModels, req, reply, dataStats, client>>

\* app.post('/api/export') with format csv and the records in hand.
ExportCsv ==
    /\ file.stage = "data"
    /\ file.type = "csv"
    /\ file' = [file EXCEPT !.stage = "csv", !.out = dataToCSV(file.data)]
    /\ UNCHANGED <<apiKey, now, trainedModels, req, reply, dataStats, client>>

\* app.post('/api/upload') with the exported text as a .csv file.
UploadAgain ==
    /\ file.stage = "csv"
    /\ file' = [file EXCEPT !.stage = "again", !.again = parseCSV(file.out)]
    /\ UNCHANGED <<apiKey, now, trainedModels, req, reply, dataStats, client>>

NextFiles == UploadFile \/ ExportCsv \/ UploadAgain

SpecFiles == InitFiles /\ [][NextFiles]_vars

\* ------------------------------------------------- the reply recovery alone
\* One reply text reaches a route twice: as it is, and inside a fenced block.
InitReplies ==
    /\ apiKey = "valid"
    /\ now = 0
    /\ trainedModels = NoModels
    /\ req = [r \in Reqs |-> Idle]
    /\ file = NoFile
    /\ dataStats = NoStats
    /\ client = NoClient
    /\ \E route \in {"process", "train", "predict"}, text \in ReplyTexts,
          open \in {"J", "F"}, pad \in {<<>>, <<"w">>}, quoting \in BOOLEAN :
          reply = [NoReply EXCEPT !.stage = "sent", !.route = route, !.text = text,
                                  !.open = open, !.pad = pad, !.quoting = quoting]

\* The route cleans and parses both texts.
ReplyArrives ==
    /\ reply.stage = "sent"
    /\ reply' = [reply EXCEPT
          !.stage = "received",
          !.plain = RouteRecover(reply.route, reply.text, reply.quoting),
          !.fenced = RouteRecover(reply.route,
                                  Fenced(reply.text, reply.open, reply.pad),
                                  reply.quoting)]
    /\ UNCHANGED <<apiKey, now, trainedModels, req, file, dataStats, client>>

NextReplies == ReplyArrives

SpecReplies == InitReplies /\ [][NextReplies]_vars

\* --------------------------------------------- the train prompt's sizes alone
\* /api/train receives a training set of every size with every split.
InitPrompt ==
    /\ apiKey = "valid"
    /\ now = 0
    /\ trainedModels = NoModels
    /\ req = [r \in Reqs |-> Idle]
    /\ file = NoFile
    /\ reply = NoReply
    /\ client = NoClient
    /\ \E n \in MinRows..MaxRowCount, p \in {NoSplit} \cup (0..Percent) :
          dataStats = [NoStats EXCEPT !.stage = "request", !.totalRows = n,
                                      !.testSplit = p]

\* The handler builds dataStats and the sizes it writes in the prompt.
BuildPrompt ==
    /\ dataStats.stage = "request"
    /\ LET testSplit == TestSplit(dataStats.testSplit) IN
       dataStats' = [dataStats EXCEPT
          !.stage = "prompt",
          !.testSplit = testSplit,
          !.trainSize = TrainSize(dataStats.totalRows, testSplit),
          !.testSize = TestSize(dataStats.totalRows, testSplit)]
    /\ UNCHANGED <<apiKey, now, trainedModels, req, file, reply, client>>

NextPrompt == BuildPrompt

SpecPrompt == InitPrompt /\ [][NextPrompt]_vars

\* ------------------------------------------------------ the browser client
\* One page of the client (src/public/app.js).  Each action is one run of its
\* code between two awaits: a click handler up to its fetch, or what follows
\* the reply.  The server answers every fetch with success or with an error.
InitClient ==
    /\ apiKey = "valid"
    /\ now = 0
    /\ trainedModels = NoModels
    /\ req = [r \in Reqs |-> Idle]
    /\ file = NoFile
    /\ reply = NoReply
    /\ dataStats = NoStats
    /\ client = NoClient

\* processFile(file) up to fetch('/api/upload'): the upload zone takes a file at
\* any time, also while earlier uploads are under way.
ChooseFile ==
    /\ client.chosen < MaxUploads
    /\ client' = [client EXCEPT !.chosen = client.chosen + 1,
                                !.uploading = client.uploading \cup {client.chosen + 1}]
    /\ UNCHANGED <<apiKey, now, trainedModels, req, file, reply, dataStats>>

\* processFile after the reply: on success the new dataset is installed and
\* processedData reset; on an error the state is left alone.
UploadReplied ==
    /\ \E d \in client.uploading, ok \in BOOLEAN :
          client' = IF ok
                    THEN [client EXCEPT !.uploading = client.uploading \ {d},
                                        !.originalData = d, !.processedData = Null]
                    ELSE [client EXCEPT !.uploading = client.uploading \ {d}]
    /\ UNCHANGED <<apiKey, now, trainedModels, req, file, reply, dataStats>>

\* clearFile(): the button sits in the file-info bar, which is shown from a
\* successful upload to the next clearFile, that is while originalData is set.
ClearFile ==
    /\ client.originalData # Null
    /\ client' = [client EXCEPT !.originalData = Null, !.processedData = Null,
                                !.trainedModelId = Null]
    /\ UNCHANGED <<apiKey, now, trainedModels, req, file, reply, dataStats>>

\* processData() up to fetch('/api/process'): the button is disabled while a
\* process request is under way; the request carries state.originalData.
ProcessClick ==
    /\ client.originalData # Null
    /\ client.processing = Null
    /\ client' = [client EXCEPT !.processing = client.originalData]
    /\ UNCHANGED <<apiKey, now, trainedModels, req, file, reply, dataStats>>

\* processData after the reply: state.processedData = result.data on success.
ProcessReplied ==
    /\ client.processing # Null
    /\ \E ok \in BOOLEAN :
          client' = IF ok
                    THEN [client EXCEPT !.processing = Null,
                                        !.processedData = client.processing]
                    ELSE [client EXCEPT !.processing = Null]
    /\ UNCHANGED <<apiKey, now, trainedModels, req, file, reply, dataStats>>

\* trainModel() up to fetch('/api/train'): it needs state.processedData, and the
\* button is disabled while a train request is under way.
TrainClick ==
    /\ client.processedData # Null
    /\ client.training = Null
    /\ client' = [client EXCEPT !.training = client.processedData]
    /\ UNCHANGED <<apiKey, now, trainedModels, req, file, reply, dataStats>>

\* trainModel after the reply: state.trainedModelId = result.modelId on success.
TrainReplied ==
    /\ client.training # Null
    /\ \E ok \in BOOLEAN :
          client' = IF ok
                    THEN [client EXCEPT !.training = Null,
                                        !.trainedModelId = client.training]
                    ELSE [client EXCEPT !.training = Null]
    /\ UNCHANGED <<apiKey, now, trainedModels, req, file, reply, dataStats>>

NextClient ==
    \/ ChooseFile
    \/ UploadReplied
    \/ ClearFile
    \/ ProcessClick
    \/ ProcessReplied
    \/ TrainClick
    \/ TrainReplied

SpecClient == InitClient /\ [][NextClient]_vars

\* -------------------------------------------------------------------- claims
UpstreamRoutes == {"process", "train", "predict"}

\* A request that has just left state `from` (in the step being taken).
Leaves(r, from) == req[r].pc = from /\ req'[r].pc # from

\* C1: a request of any route makes at most 3 upstream calls: it never waits
\* for a retry after its third call, and when all three attempts failed with a
\* quota error the request is answered with that error.
C1_AtMostThreeCalls ==
    \A r \in Reqs :
        /\ req[r].calls <= 3
        /\ req[r].pc = "backoff" => req[r].calls < 3
        /\ req[r].pc = "call" => req[r].route \in UpstreamRoutes
        /\ (req[r].calls = 3 /\ req[r].cause = "upstream" /\ req[r].quotaOnly)
              => /\ req[r].pc = "done"
                 /\ req[r].status >= 400
                 /\ "quota" \in req[r].msg

\* Two requests, one of /api/process and one of /api/train, each answered after
\* three attempts that all failed with a quota error.
C1_Witness ==
    \E r1, r2 \in Reqs :
        /\ req[r1].route = "process" /\ req[r2].route = "train"
        /\ \A r \in {r1, r2} :
              /\ req[r].pc = "done" /\ req[r].cause = "upstream"
              /\ req[r].calls = 3 /\ req[r].quotaOnly

\* C2: in every route, a request waits for a retry only after a quota-type
\* failure: an upstream failure that is not quota-type is never retried.
C2_NonQuotaNeverRetried ==
    \A r \in Reqs : req[r].pc = "backoff" => "quota" \in req[r].msg

\* C3: a /api/predict request with modelId and inputData, or a download
\* request, that names an identifier not in the registry is answered 404 in
\* the step that takes it, having made no upstream call.
C3_UnknownModelIs404 ==
    [][\A r \in Reqs :
          ( /\ Leaves(r, "idle")
            /\ \/ /\ req'[r].route = "predict"
                  /\ req'[r].body.modelId # NoId
                  /\ req'[r].body.inputData
               \/ req'[r].route = "download"
            /\ req'[r].body.modelId \notin DOMAIN trainedModels )
          => /\ req'[r].pc = "done"
             /\ req'[r].status = 404
             /\ req'[r].calls = 0]_vars

\* A predict and a download request, both answered 404.
C3_Witness ==
    \E r1, r2 \in Reqs :
        /\ req[r1].route = "predict" /\ req[r1].body.inputData
        /\ req[r1].body.modelId # NoId
        /\ req[r1].status = 404 /\ req[r1].calls = 0
        /\ req[r2].route = "download" /\ req[r2].status = 404

\* C4: a /api/train request with targetColumn and modelType and an array of
\* fewer than 10 rows is answered 400 in the step that takes it, with no
\* upstream call and the registry unchanged; with 10 rows or more it issues
\* its first upstream call.
C4_TrainNeedsTenRows ==
    [][\A r \in Reqs :
          ( /\ Leaves(r, "idle")
            /\ req'[r].route = "train"
            /\ req'[r].body.targetColumn /\ req'[r].body.modelType
            /\ req'[r].body.data >= 0 )
          => IF req'[r].body.data < 10
             THEN /\ req'[r].pc = "done" /\ req'[r].status = 400
                  /\ req'[r].calls = 0 /\ req'[r].key = NoId
                  /\ trainedModels' = trainedModels
             ELSE req'[r].pc = "call" /\ req'[r].calls = 1]_vars

\* A train request of 9 rows answered 400 and one of 10 rows calling upstream.
C4_Witness ==
    \E r1, r2 \in Reqs :
        /\ req[r1].route = "train" /\ req[r1].body.data = 9
        /\ req[r1].body.targetColumn /\ req[r1].body.modelType
        /\ req[r1].status = 400 /\ req[r1].calls = 0
        /\ req[r2].route = "train" /\ req[r2].body.data = 10
        /\ req[r2].pc = "call" /\ req[r2].calls = 1

\* C5: with the credential absent or the placeholder, no request of any route
\* issues an upstream call.
C5_NoCallWithoutCredential ==
    apiKey # "valid" => \A r \in Reqs : req[r].calls = 0

\* C6: in every route, a request whose three attempts all failed with a
\* quota-type error is answered 429.
C6_QuotaExhaustionIs429 ==
    \A r \in Reqs :
        ( /\ req[r].pc = "done" /\ req[r].cause = "upstream"
          /\ req[r].calls = 3 /\ req[r].quotaOnly )
        => req[r].status = 429

\* Whether the reply text is recovered neither by parsing the cleaned text nor
\* by parsing its bracketed (when brackets) or braced substring.
Unrecoverable(text, brackets) ==
    LET c == CleanResponse(Trim(text))
        m == JsonMatch(c, brackets)
    IN ~ValidJSON(c) /\ (m = <<>> \/ ~ValidJSON(m))

\* C7: a /api/process request that has received a reply text is answered with
\* a success, and when the text is not recovered as JSON (the substring absent
\* or itself not valid JSON) the data is the wrapper around the text.
C7_ProcessNeverFailsOnReply ==
    \A r \in Reqs :
        (req[r].route = "process" /\ req[r].pc = "done" /\ req[r].text # NoText)
        => /\ req[r].status = 200
           /\ Unrecoverable(req[r].text, TRUE)
                 => req[r].data = [wrap |-> TRUE, val |-> CleanResponse(Trim(req[r].text))]

\* C8: a /api/train or /api/predict request whose reply is not recovered as
\* JSON is answered 500, and the step leaves the registry as it was.
C8_TrainPredictFailOnReply ==
    [][\A r \in Reqs :
          ( /\ Leaves(r, "call")
            /\ req[r].route \in {"train", "predict"}
            /\ req'[r].text # NoText
            /\ Unrecoverable(req'[r].text, FALSE) )
          => /\ req'[r].pc = "done"
             /\ req'[r].status = 500
             /\ req'[r].key = NoId
             /\ trainedModels' = trainedModels]_vars

\* A train and a predict request, both answered 500 on a reply with no JSON.
C8_Witness ==
    \E r1, r2 \in Reqs :
        /\ req[r1].route = "train" /\ req[r2].route = "predict"
        /\ \A r \in {r1, r2} :
              /\ req[r].pc = "done" /\ req[r].text # NoText
              /\ Unrecoverable(req[r].text, FALSE) /\ req[r].status = 500

\* C9: two /api/train requests that both succeed are stored under distinct
\* registry keys.
C9_TrainKeysDistinct ==
    \A r1, r2 \in Reqs :
        ( /\ r1 # r2
          /\ \A r \in {r1, r2} :
                req[r].route = "train" /\ req[r].pc = "done" /\ req[r].status = 200 )
        => req[r1].key # req[r2].key

\* C10: no step removes an identifier from the registry, and no predict or
\* download request that names a registered identifier is answered 404.
C10_EntriesNeverExpire ==
    [][/\ DOMAIN trainedModels \subseteq DOMAIN trainedModels'
       /\ \A r \in Reqs :
             ( /\ req[r].status # 404 /\ req'[r].status = 404
               /\ req'[r].route \in {"predict", "download"} )
             => req'[r].body.modelId \notin DOMAIN trainedModels]_vars

\* With two entries in the registry, stored by two train calls, a predict and a
\* download request for the older one are taken and not answered 404.
C10_Witness ==
    \E r1, r2 \in Reqs :
        /\ Cardinality(DOMAIN trainedModels) = 2
        /\ req[r1].route = "predict" /\ req[r2].route = "download"
        /\ \A r \in {r1, r2} :
              /\ req[r].body.modelId = 0
              /\ req[r].pc # "idle" /\ req[r].status # 404

\* C11: a /api/train request has stored a registry entry exactly when it was
\* answered 200 with success true in the body.
C11_StoreIffSuccess ==
    \A r \in Reqs :
        (req[r].route = "train" /\ req[r].pc = "done")
            => (req[r].key # NoId
                  <=> /\ req[r].status = 200
                      /\ TrainResponse(req[r].key, req[r].data.val).success)

\* The lines parseCSV reads a text as: the header line, then the data lines.
CsvLines(text) == Split(Trim(text), "N")

\* C12: a CSV text with a header line of M columns and N data lines parses to
\* N records in line order, each with exactly M keys, the value of a column
\* being its (trimmed) field of the line, or the empty string when the line
\* has no such field.
C12_ParseCsvShape ==
    (file.origin = "upload" /\ file.stage = "data" /\ file.type = "csv") =>
        LET lines == CsvLines(file.content)
            headers == parseCSVLine(lines[1])
            M == Len(headers)
            N == Len(lines) - 1
        IN /\ Len(file.data) = N
           /\ \A i \in 1..N :
                 LET values == parseCSVLine(lines[i + 1]) IN
                 /\ Len(Keys(file.data[i])) = M
                 /\ \A j \in 1..M :
                       Get(file.data[i], Trim(headers[j])) =
                           Str(IF j <= Len(values) THEN Trim(values[j]) ELSE <<>>)

\* C13: the records parsed from a CSV text, written by dataToCSV and parsed
\* again, are the records parsed the first time (same keys, same values, same
\* order).
C13_CsvRoundTrip ==
    (file.origin = "upload" /\ file.stage = "again") => file.again = file.data

\* C14: every upload of a file is answered 200 with a type among csv, json and
\* text (parseFileContent raises nothing), and a file whose name ends in .json,
\* in any letter case, with a content that is not JSON, is answered with type
\* text and the content itself as data.
C14_BadJsonIsText ==
    (file.origin = "upload" /\ file.stage = "data") =>
        /\ file.status = 200
        /\ file.type \in {"csv", "json", "text"}
        /\ (ToLowerCase(file.name.suffix) = ".json" /\ ~ValidJSON(file.content))
              => (file.type = "text" /\ file.data = file.content)

C14_Witness ==
    /\ file.stage = "data"
    /\ file.name = [stem |-> "data", suffix |-> ".JSON"]
    /\ file.content = <<"{", "s", "}">>
    /\ file.type = "text"
    /\ file.data = file.content
    /\ file.status = 200

\* C15: a route makes of a reply text inside a fenced code block (```json or
\* bare ```, whitespace around) exactly what it makes of the text itself: the
\* same value, or the same error.
C15_FenceInsensitive ==
    reply.stage = "received" => reply.fenced = reply.plain

C15_Witness ==
    /\ reply.stage = "received"
    /\ reply.route = "process"
    /\ reply.text = <<"[", "s", "]", "w">>
    /\ reply.open = "J"
    /\ reply.pad = <<"w">>
    /\ reply.fenced = Recovered(<<"[", "s", "]">>)

\* The field the claim has dataToCSV write for row[h]: the empty string for an
\* empty, null or undefined value, the stringified value otherwise, in quotes
\* (inner quotes doubled) when it holds a comma, a quote or a newline.
StringifiedField(row, h) ==
    LET v == Get(row, h) IN
    IF v.kind \in {"undefined", "null"} \/ v.str = <<>> THEN <<>> ELSE Escape(v.str)

\* C16: dataToCSV writes the header line from the first record's keys and, for
\* every record, one field per header holding the stringified value (0 as "0",
\* false as "false"), only empty and undefined values being written empty.
C16_ExportStringifies ==
    (file.origin = "client" /\ file.stage = "csv") =>
        LET headers == Keys(file.data[1])
            Line(row) ==
                Join([j \in 1..Len(headers) |-> StringifiedField(row, headers[j])], ",")
        IN file.out =
              Join(<<Join(headers, ",")>>
                       \o [i \in 1..Len(file.data) |-> Line(file.data[i])], "N")

\* Whether a request of the route lacks one of the inputs the route requires.
MissingInput(route, body) ==
    \/ route = "upload" /\ body.file = <<>>
    \/ route = "process" /\ (body.data = Absent \/ ~body.prompt)
    \/ route = "train" /\ (body.data = Absent \/ ~body.targetColumn \/ ~body.modelType)
    \/ route = "predict" /\ (body.modelId = NoId \/ ~body.inputData)

\* C17: a request that lacks a required input is answered 400 in the step that
\* receives it, having made no upstream call and with the registry as it was;
\* for /api/predict this holds whether or not the identifier is known.
C17_MissingInputIs400 ==
    [][\A r \in Reqs :
          (Leaves(r, "idle") /\ MissingInput(req'[r].route, req'[r].body))
              => /\ req'[r].pc = "done"
                 /\ req'[r].status = 400
                 /\ req'[r].calls = 0
                 /\ trainedModels' = trainedModels]_vars

C17_Witness ==
    /\ req[1].route = "predict"
    /\ req[1].body.modelId = ForeignId
    /\ ~req[1].body.inputData
    /\ req[1].status = 400
    /\ req[2].route = "upload"
    /\ req[2].body.file = <<>>
    /\ req[2].status = 400
    /\ req[2].calls = 0

\* C18: a /api/process request that failed while parsing the reply, or on an
\* upstream error that names neither the quota, the key nor the model, is
\* answered 500.
C18_ProcessOtherFailuresAre500 ==
    \A r \in Reqs :
        (/\ req[r].route = "process"
         /\ req[r].pc = "done"
         /\ \/ req[r].cause \in {"parse", "loop"}
            \/ req[r].cause = "upstream" /\ req[r].msg = {})
            => req[r].status = 500

\* C19: while a request waits in its backoff or for the upstream reply, no
\* other request is held up: an empty slot can take a request of any route, a
\* request awaiting upstream can receive its failure or (with a credential) its
\* reply, one in its backoff can resume, and an answered one can return.
C19_RetriesDoNotSerialize ==
    \A r \in Reqs : \A o \in Reqs \ {r} :
        req[r].pc \in {"backoff", "call"} =>
            /\ req[o].pc = "idle" =>
                  /\ ENABLED Upload(o)
                  /\ ENABLED ProcessStart(o)
                  /\ ENABLED TrainStart(o)
                  /\ ENABLED PredictStart(o)
                  /\ ENABLED Download(o)
            /\ req[o].pc = "call" =>
                  /\ ENABLED UpstreamFails(o)
                  /\ apiKey = "valid" =>
                        ENABLED (ProcessReply(o) \/ TrainReply(o) \/ PredictReply(o))
            /\ req[o].pc = "backoff" => ENABLED BackoffDone(o)
            /\ req[o].pc = "done" => ENABLED Forget(o)

C19_Witness ==
    /\ req[1].pc = "backoff"
    /\ req[1].calls = 2
    /\ req[2].route = "train"
    /\ req[2].pc = "done"
    /\ req[2].status = 200
    /\ req[2].calls = 2

\* C20: a request has waited once between every two consecutive upstream
\* calls and at no other time: a request in its backoff has waited as often as
\* it has called, a request calling or answered once less (the call whose
\* failure or reply ended the request is followed by no wait).
C20_OneWaitBetweenCalls ==
    \A r \in Reqs :
        /\ req[r].pc = "backoff" => req[r].waits = req[r].calls
        /\ req[r].pc = "call" => req[r].waits = req[r].calls - 1
        /\ req[r].pc = "done" =>
              req[r].waits = IF req[r].calls = 0 THEN 0 ELSE req[r].calls - 1

C20_Witness ==
    /\ req[1].route = "process"
    /\ req[1].pc = "done"
    /\ req[1].cause = "upstream"
    /\ req[1].calls = 3
    /\ req[1].waits = 2
    /\ req[2].route = "train"
    /\ req[2].pc = "done"
    /\ req[2].cause = "upstream"
    /\ req[2].calls = 3
    /\ req[2].waits = 2

\* The JSON arrays and objects that text holds between two stretches of prose
\* free of brackets and braces.
EmbeddedValues(text) ==
    LET Prose(k) == text[k] \in {"x", "q", "w"}
        Spans == {<<i, j>> \in (1..Len(text)) \X (1..Len(text)) :
                     /\ i <= j
                     /\ text[i] \in {"[", "{"}
                     /\ ValidJSON(SubSeq(text, i, j))
                     /\ \A k \in (1..Len(text)) \ (i..j) : Prose(k)}
    IN {SubSeq(text, sp[1], sp[2]) : sp \in Spans}

\* C21: when the reply is a JSON array or object between prose without
\* brackets or braces, and is not JSON as a whole, every route recovers
\* exactly that array or object.
C21_RecoversEmbeddedValue ==
    (reply.stage = "received" /\ ~ValidJSON(CleanResponse(Trim(reply.text)))) =>
        \A v \in EmbeddedValues(reply.text) : reply.plain = Recovered(v)

\* The commas of a line that lie outside quotes: those with an even number of
\* quote characters before them.
CommasOutsideQuotes(line) ==
    {i \in Positions(line, ",") :
        Cardinality({k \in Positions(line, "Q") : k < i}) % 2 = 0}

\* C22: for every line of an uploaded CSV file, parseCSVLine returns one field
\* more than the line has commas outside quotes, and no field holds a quote
\* character.
C22_QuotedCommaDoesNotSplit ==
    (file.origin = "upload" /\ file.stage = "data" /\ file.type = "csv") =>
        \A n \in 1..Len(CsvLines(file.content)) :
            LET line == CsvLines(file.content)[n]
                fields == parseCSVLine(line)
            IN /\ Len(fields) = 1 + Cardinality(CommasOutsideQuotes(line))
               /\ \A f \in 1..Len(fields) : Positions(fields[f], "Q") = {}

C22_Witness ==
    /\ file.stage = "data"
    /\ file.type = "csv"
    /\ file.content = <<"Q", ",", "Q", ",", "a">>
    /\ parseCSVLine(file.content) = << <<",">>, <<"a">> >>

\* The newlines of a text that lie inside quotes: those with an odd number of
\* quote characters before them.
NewlinesInsideQuotes(text) ==
    {i \in Positions(text, "N") :
        Cardinality({k \in Positions(text, "Q") : k < i}) % 2 = 1}

\* C23: a CSV text made of a header line (that starts with a letter) and one
\* data record, a quoted field of which holds a newline, parses to exactly one record, and a value of that
\* record holds the newline.
C23_QuotedNewlineKeepsRecord ==
    (/\ file.origin = "upload" /\ file.stage = "data" /\ file.type = "csv"
     /\ file.content # <<>> /\ file.content[1] \in {"a", "b"}
     /\ NewlinesInsideQuotes(file.content) # {}
     /\ Cardinality(Positions(file.content, "N") \ NewlinesInsideQuotes(file.content)) = 1
     /\ Cardinality(Positions(file.content, "Q")) % 2 = 0)
        => /\ Len(file.data) = 1
           /\ \E j \in 1..Len(file.data[1]) :
                 Positions(file.data[1][j].val.str, "N") # {}

\* C24: a step that changes the registry is the store step of a /api/train
\* request, answered 200, and it leaves every entry under another identifier
\* as it was; so the steps of upload, process, export, download, predict and
\* health change nothing.
C24_OnlyTrainStores ==
    [][trainedModels' # trainedModels =>
          \E r \in Reqs :
              /\ req[r].route = "train"
              /\ Leaves(r, "call")
              /\ req'[r].status = 200
              /\ \A k \in DOMAIN trainedModels :
                    k # req'[r].key =>
                        /\ k \in DOMAIN trainedModels'
                        /\ trainedModels'[k] = trainedModels[k]]_vars

C24_Witness ==
    /\ DOMAIN trainedModels = {0, 1}
    /\ req[1].route = "download"
    /\ req[1].status = 200
    /\ req[2].route = "export"
    /\ req[2].status = 500

\* C25: the modelId in the body of a 200 answer of /api/train is the key under
\* which the request stored its entry, and the registry holds that key.
C25_ReturnedIdIsStoredKey ==
    \A r \in Reqs :
        (req[r].route = "train" /\ req[r].pc = "done" /\ req[r].status = 200)
            => /\ req[r].key \in DOMAIN trainedModels
               /\ TrainResponse(req[r].key, req[r].data.val).modelId = req[r].key

\* C26: a /api/predict request with input data and an identifier the registry
\* holds reaches the upstream call (it was not answered 404, so the entry was
\* there when the request came).
C26_StoredEntryIsUsable ==
    \A r \in Reqs :
        (/\ req[r].route = "predict"
         /\ req[r].body.inputData
         /\ req[r].body.modelId \in DOMAIN trainedModels
         /\ req[r].status # 404)
            => req[r].calls >= 1

\* What bounds the steps a request in flight has left: twice the attempts it
\* may still make, one more while it waits to make the next.
StepsLeft(q) ==
    IF q.pc = "call" THEN 2 * q.retries
    ELSE IF q.pc = "backoff" THEN 2 * q.retries + 1
    ELSE 0

\* C27: every request is answered exactly once and after at most 3 upstream
\* calls: a request that is not answered has sent nothing and an answered one
\* has sent one response; while a request is in flight its next step is ready
\* to run as soon as the upstream call or the backoff returns, and each step
\* brings it strictly closer to its answer; and a 200 of a route that calls
\* upstream follows a last call that returned a reply.
C27_AnsweredExactlyOnce ==
    [][\A r \in Reqs :
          /\ req'[r].sent = IF req'[r].pc = "done" THEN 1 ELSE 0
          /\ req'[r].calls <= 3
          /\ req[r].pc = "call" => ENABLED UpstreamFails(r)
          /\ req[r].pc = "backoff" => ENABLED BackoffDone(r)
          /\ (req[r].pc \in {"call", "backoff"} /\ req'[r] # req[r])
                => /\ StepsLeft(req'[r]) < StepsLeft(req[r])
                   /\ StepsLeft(req'[r]) >= 0
          /\ (Leaves(r, "idle") /\ req'[r].pc # "done")
                => (req'[r].pc = "call" /\ StepsLeft(req'[r]) = 2 * 3)
          /\ (/\ req'[r].pc = "done" /\ req'[r].status = 200
              /\ req'[r].route \in UpstreamRoutes)
                => req'[r].last = "replied"]_vars

C27_Witness ==
    /\ req[1].route = "predict"
    /\ req[1].pc = "done"
    /\ req[1].status = 200
    /\ req[1].calls = 3
    /\ req[1].sent = 1
    /\ req[2].route = "process"
    /\ req[2].pc = "done"
    /\ req[2].status = 429
    /\ req[2].calls = 3
    /\ req[2].last = "failed"
    /\ req[2].sent = 1

\* C28: the train size and the test size written in the /api/train prompt sum
\* to the number of rows.
C28_SizesSumToRows ==
    dataStats.stage = "prompt" =>
        dataStats.trainSize + dataStats.testSize = dataStats.totalRows

\* C29: in the client, processedData, when set, was derived from the dataset
\* that originalData holds.
C29_ProcessedMatchesOriginal ==
    client.processedData # Null => client.processedData = client.originalData

\* C30: in the client, when originalData is null, processedData and
\* trainedModelId are null too.
C30_ClearedStaysCleared ==
    client.originalData = Null =>
        (client.processedData = Null /\ client.trainedModelId = Null)

====
